---- MODULE Spec2Model ----
(***************************************************************************)
(* A model of app.py: the Flask routes of the Spotify login / profile /    *)
(* recommendation application, the session they share, the upstream calls  *)
(* they make, and the two pure helpers get_hidden_gems and recommend_music.*)
(*                                                                         *)
(* Python values are modelled structurally:                                *)
(*   - a dict is a function from its keys (strings) to its values; the     *)
(*     empty dict is the empty function <<>>;                              *)
(*   - a list is a sequence;                                               *)
(*   - a value that may be None is a record [some, val] (Some / None);     *)
(*   - one upstream HTTP exchange is a Reply record: either requests       *)
(*     raised a ConnectionError (no response at all) or a response with a  *)
(*     status code, a JSON document and a raw text came back.              *)
(***************************************************************************)
EXTENDS Integers, Sequences, FiniteSets, TLC

VARIABLES
    session,   \* flask.session: the per-browser dict of the Session Store
    request,   \* the request being answered: [path, args]
    resp,      \* what the handler handed back: [kind, what, detail, data]
    calls,     \* the upstream HTTP calls the handler made, in order
    fnArgs,    \* arguments of the helper being applied (SpecGems, SpecRec)
    fnResult   \* [done, val]: its return value once it has been applied

vars == <<session, request, resp, calls, fnArgs, fnResult>>

-----------------------------------------------------------------------------
(* Bounds of the model *)

MaxTracks == 6         \* length of an upstream recommendations track list
MaxResultsBound == 5   \* largest max_results handed to get_hidden_gems
MaxSimilar == 6        \* length of one related-artists list handed to recommend_music

(* Program constants *)

PopularityThreshold == 50   \* app.py:133
DefaultMaxResults == 5      \* app.py:116
RecommendLimit == 10        \* app.py:166

-----------------------------------------------------------------------------
(* Python values *)

EmptyDict == <<>>

Some(v) == [some |-> TRUE, val |-> v]

\* None where a str is expected
None == [some |-> FALSE, val |-> ""]

\* None where a dict or a list is expected
Absent == [some |-> FALSE, val |-> EmptyDict]

\* dict.get(key) on a dict of str values: the value or None
DictGet(d, k) == IF k \in DOMAIN d THEN Some(d[k]) ELSE None

\* session.get(key): the session's values are themselves str-or-None
SessionGet(s, k) == IF k \in DOMAIN s THEN s[k] ELSE None

\* d[key] = value
DictSet(d, k, v) == [x \in DOMAIN d \cup {k} |-> IF x = k THEN v ELSE d[x]]

\* len(d)
DictLen(d) == Cardinality(DOMAIN d)

\* Python truthiness of an optional dict or list: None, {} and [] are falsy
Truthy(o) == o.some /\ DOMAIN o.val # {}

\* Python truthiness of an optional str: None and "" are falsy
TruthyStr(o) == o.some /\ o.val # ""

Min(a, b) == IF a < b THEN a ELSE b

Max(a, b) == IF a > b THEN a ELSE b

\* seq[:n], Python slice semantics: a negative n counts from the end
PySliceTo(seq, n) ==
    LET stop == IF n < 0 THEN Max(Len(seq) + n, 0) ELSE Min(n, Len(seq))
    IN  SubSeq(seq, 1, stop)

RECURSIVE Concat(_)
\* the concatenation of a sequence of sequences
Concat(ss) == IF ss = <<>> THEN <<>> ELSE Head(ss) \o Concat(Tail(ss))

-----------------------------------------------------------------------------
(* Upstream exchanges *)

ConnectionError == "ConnectionError"

Reply(exc, status, json, text) ==
    [exc |-> exc, status |-> status, json |-> json, text |-> text]

\* requests raised before any response arrived
Unreachable == Reply(ConnectionError, 0, EmptyDict, "")

\* what a call carries into its URL or form: nothing, one str, or a list
\* of dicts, which an f-string formats as the list's repr
NoArg == [repr |-> "none", of |-> <<>>]

StrArg(v) == [repr |-> "str", of |-> <<v>>]

ListArg(items) == [repr |-> "list", of |-> [i \in DOMAIN items |-> items[i].id]]

Call(ep, arg, reply) == [ep |-> ep, arg |-> arg, reply |-> reply]

\* response.raise_for_status(): HTTPError for 4xx and 5xx
RaisesHTTPError(reply) == reply.status >= 400 /\ reply.status < 600

\* api_request: the JSON document, or None when raise_for_status raised.
\* Only HTTPError is caught: a ConnectionError leaves the function (Raises).
api_request(reply) == IF RaisesHTTPError(reply) THEN Absent ELSE Some(reply.json)

Raises(reply) == reply.exc # "none"

\* One loop of calls: every request of reqs gets some reply of replies, and
\* the loop ends at the first call that raises. The set of possible runs.
RECURSIVE Runs(_, _)
Runs(reqs, replies) ==
    IF reqs = <<>> THEN {<<>>}
    ELSE UNION {
        IF Raises(r)
        THEN {<<Call(Head(reqs).ep, Head(reqs).arg, r)>>}
        ELSE {<<Call(Head(reqs).ep, Head(reqs).arg, r)>> \o rest
                : rest \in Runs(Tail(reqs), replies)}
        : r \in replies}

\* whether the last call of a run raised
Raised(run) == run # <<>> /\ Raises(run[Len(run)].reply)

RepliesOf(run) == [i \in DOMAIN run |-> run[i].reply]

-----------------------------------------------------------------------------
(* Responses of a handler *)

Response(kind, what, detail, data) ==
    [kind |-> kind, what |-> what, detail |-> detail, data |-> data]

Redirect(target) == Response("redirect", target, "", <<>>)

Render(template, data) == Response("render", template, "", data)

Text(message, detail) == Response("text", message, detail, <<>>)

\* an exception left the view function
Unhandled(exc) == Response("exception", exc, "", <<>>)

Request(path, args) == [path |-> path, args |-> args]

-----------------------------------------------------------------------------
(* The token endpoint *)

Codes == {"code1"}

AccessTokens == {"tokA", "tokB"}

RefreshTokens == {"refA"}

TokenStatusCodes == {200, 201, 400, 500}

TokenErrorTexts == {"invalid_grant", "server_error"}

TokenReplies ==
    {Reply("none", 200, [access_token |-> a, refresh_token |-> r], "")
        : a \in AccessTokens, r \in RefreshTokens}
    \cup {Reply("none", s, EmptyDict, t)
        : s \in TokenStatusCodes \ {200}, t \in TokenErrorTexts}
    \cup {Unreachable}

CallbackArgs == {EmptyDict} \cup {[code |-> c] : c \in Codes}

-----------------------------------------------------------------------------
(* Routes without upstream data calls *)

NoCalls == <<>>

NotApplied == [done |-> FALSE, val |-> <<>>]

\* @app.route('/')
home ==
    /\ request' = Request("/", EmptyDict)
    /\ resp' = Render("home.html", <<>>)
    /\ calls' = NoCalls
    /\ UNCHANGED <<session, fnArgs, fnResult>>

\* @app.route('/login')
login ==
    /\ request' = Request("/login", EmptyDict)
    /\ resp' = Redirect("https://accounts.spotify.com/authorize")
    /\ calls' = NoCalls
    /\ UNCHANGED <<session, fnArgs, fnResult>>

\* a variant that stores the two tokens under each other's key
StoreTokens_Swapped(s, token_info) ==
    DictSet(DictSet(s, "access_token", DictGet(token_info, "refresh_token")),
            "refresh_token", DictGet(token_info, "access_token"))

\* the session after callback's two assignments
StoreTokens(s, token_info) ==
    DictSet(DictSet(s, "access_token", DictGet(token_info, "access_token")),
            "refresh_token", DictGet(token_info, "refresh_token"))

\* a variant of the test that lets every non-error status through
TokenExchangeFailed_ErrorsOnly(reply) == reply.status >= 400

\* callback's test of the token endpoint's answer
TokenExchangeFailed(reply) == reply.status # 200

\* @app.route('/callback')
callback ==
    \E args \in CallbackArgs, reply \in TokenReplies :
        LET code == DictGet(args, "code")
            made == <<Call("token", IF code.some THEN StrArg(code.val) ELSE NoArg, reply)>>
        IN  /\ request' = Request("/callback", args)
            /\ calls' = made
            /\ IF Raises(reply)
               THEN /\ resp' = Unhandled(reply.exc)
                    /\ session' = session
               ELSE IF TokenExchangeFailed(reply)
               THEN /\ resp' = Text("Error fetching access token: ", reply.text)
                    /\ session' = session
               ELSE /\ session' = StoreTokens(session, reply.json)
                    /\ resp' = Redirect("/profile")
            /\ UNCHANGED <<fnArgs, fnResult>>

\* a variant of logout that drops the refresh token only
logout_KeepsAccessToken ==
    /\ request' = Request("/logout", EmptyDict)
    /\ session' = [k \in DOMAIN session \ {"refresh_token"} |-> session[k]]
    /\ resp' = Redirect("/")
    /\ calls' = NoCalls
    /\ UNCHANGED <<fnArgs, fnResult>>

\* @app.route('/logout')
logout ==
    /\ request' = Request("/logout", EmptyDict)
    /\ session' = EmptyDict
    /\ resp' = Redirect("/")
    /\ calls' = NoCalls
    /\ UNCHANGED <<fnArgs, fnResult>>

-----------------------------------------------------------------------------
(* The data endpoints of the streaming service, as the routes see them *)

ApiErrorStatusCodes == {404, 500}

ErrorReplies == {Reply("none", s, EmptyDict, "") : s \in ApiErrorStatusCodes}

Ok(json) == Reply("none", 200, json, "")

TopArtist(id) == [id |-> id]

\* GET /v1/me
MeBodies == {EmptyDict, [id |-> "u1"], [id |-> "u1", genres |-> <<"indie">>]}

MeReplies == {Ok(b) : b \in MeBodies} \cup ErrorReplies \cup {Unreachable}

\* GET /v1/me/top/artists: no, one or two artists
TopArtistsLists ==
    {<<>>, <<TopArtist("a1")>>, <<TopArtist("a1"), TopArtist("a2")>>}

TopArtistsBodies == {EmptyDict} \cup {[items |-> l] : l \in TopArtistsLists}

TopArtistsReplies ==
    {Ok(b) : b \in TopArtistsBodies} \cup ErrorReplies \cup {Unreachable}

\* GET /v1/me/top/tracks
TopTracksBodies == {EmptyDict, [items |-> <<>>], [items |-> <<[id |-> "t1"]>>]}

TopTracksReplies ==
    {Ok(b) : b \in TopTracksBodies} \cup ErrorReplies \cup {Unreachable}

\* one artist of a related-artists answer
SimilarArtist(name) == [name |-> name, genres |-> <<"indie">>, popularity |-> 70]

\* one track of a recommendations answer
UpstreamTrack(p) ==
    [name |-> "track", artists |-> <<[name |-> "artist"]>>, popularity |-> p,
     preview_url |-> "url", album |-> [name |-> "album"]]

\* GET /v1/artists/{id}/related-artists
RelatedReplies ==
    {Ok([artists |-> <<SimilarArtist("s1")>>]),
     Reply("none", 404, EmptyDict, ""),
     Unreachable}

\* GET /v1/recommendations
GemReplies ==
    {Ok([tracks |-> <<UpstreamTrack(60), UpstreamTrack(10)>>]),
     Reply("none", 404, EmptyDict, ""),
     Unreachable}

-----------------------------------------------------------------------------
(* The helpers of the Recommendation Assembler *)

\* get_similar_artists, given the related-artists endpoint's reply
get_similar_artists(reply) ==
    LET similar_artists_data == api_request(reply)
    IN  IF Truthy(similar_artists_data)
        THEN IF "artists" \in DOMAIN similar_artists_data.val
             THEN similar_artists_data.val.artists
             ELSE <<>>
        ELSE <<>>

\* a variant of the test that lets the threshold itself through
IsHiddenGem_Inclusive(track) == track.popularity <= PopularityThreshold

\* the popularity test of get_hidden_gems' comprehension
IsHiddenGem(track) == track.popularity < PopularityThreshold

\* the dict get_hidden_gems builds from one upstream track
GemOf(track) ==
    [name |-> track.name, artist |-> track.artists[1].name,
     popularity |-> track.popularity, preview_url |-> track.preview_url,
     album |-> track.album.name]

RECURSIVE GemsOf(_)
\* get_hidden_gems' list comprehension
GemsOf(tracks) ==
    IF tracks = <<>> THEN <<>>
    ELSE (IF IsHiddenGem(Head(tracks)) THEN <<GemOf(Head(tracks))>> ELSE <<>>)
         \o GemsOf(Tail(tracks))

\* get_hidden_gems, given the recommendations endpoint's reply
get_hidden_gems(reply, max_results) ==
    LET recommendations_data == api_request(reply)
    IN  IF ~Truthy(recommendations_data) THEN <<>>
        ELSE PySliceTo(GemsOf(recommendations_data.val.tracks), max_results)

ArtistEntry(similar_artist) ==
    [name |-> similar_artist.name, type |-> "Artist",
     genres |-> similar_artist.genres, popularity |-> similar_artist.popularity]

TrackEntry(track) ==
    [name |-> track.name, type |-> "Track", artist |-> track.artist,
     album |-> track.album, popularity |-> track.popularity,
     preview_url |-> track.preview_url]

\* the entries recommend_music appends for one artist's similar artists
ArtistEntries(similar_artists) ==
    [k \in DOMAIN similar_artists |-> ArtistEntry(similar_artists[k])]

\* the entries recommend_music appends for one genre's hidden gems
TrackEntries(hidden_gems) ==
    [k \in DOMAIN hidden_gems |-> TrackEntry(hidden_gems[k])]

\* user_data.get('top_artists', [])
TopArtistsOf(user_data) ==
    IF "top_artists" \in DOMAIN user_data THEN user_data.top_artists ELSE <<>>

\* the genres recommend_music loops over: none when the key is missing
GenresOf(user_data) ==
    IF "genres" \in DOMAIN user_data THEN user_data.genres ELSE <<>>

\* recommend_music's list before the shuffle; related[i] is the reply to the
\* lookup for the i-th top artist, gems[j] the reply for the j-th genre
RecommendCandidates(user_data, related, gems) ==
    LET step1(i) == ArtistEntries(get_similar_artists(related[i]))
        step2(j) == TrackEntries(get_hidden_gems(gems[j], DefaultMaxResults))
    IN  Concat([i \in DOMAIN TopArtistsOf(user_data) |-> step1(i)])
        \o Concat([j \in DOMAIN GenresOf(user_data) |-> step2(j)])

\* seq without its i-th element
RemoveAt(seq, i) == SubSeq(seq, 1, i - 1) \o SubSeq(seq, i + 1, Len(seq))

RECURSIVE Shuffles(_)
\* random.shuffle: every ordering of the list's entries
Shuffles(seq) ==
    IF seq = <<>> THEN {<<>>}
    ELSE UNION {{<<seq[i]>> \o rest : rest \in Shuffles(RemoveAt(seq, i))}
                 : i \in {k \in DOMAIN seq : \A j \in 1..(k - 1) : seq[j] # seq[k]}}

\* a variant that cuts the shuffled list one entry too late
recommend_music_OffByOne(user_data, related, gems) ==
    {PySliceTo(shuffled, RecommendLimit + 1)
        : shuffled \in Shuffles(RecommendCandidates(user_data, related, gems))}

\* what recommend_music may return: the shuffled list cut to its first ten
recommend_music(user_data, related, gems) ==
    {PySliceTo(shuffled, RecommendLimit)
        : shuffled \in Shuffles(RecommendCandidates(user_data, related, gems))}

-----------------------------------------------------------------------------
(* Routes that need an access token *)

\* a variant with the test inverted
MissingAccessToken_Inverted(s) == TruthyStr(SessionGet(s, "access_token"))

\* "if not access_token" of profile and recommend
MissingAccessToken(s) == ~TruthyStr(SessionGet(s, "access_token"))

\* a variant of profile that never tests what api_request returned
ProfileFetchFailed_Unchecked(reply) == FALSE

\* profile's "if not user_data", "if not top_artists_data" and
\* "if not top_tracks_data"
ProfileFetchFailed(reply) == ~Truthy(api_request(reply))

\* recommend's "if not user_data" and "if not top_artists_data"
RecommendFetchFailed(reply) == ~Truthy(api_request(reply))

\* @app.route('/profile')
profile ==
    /\ request' = Request("/profile", EmptyDict)
    /\ IF MissingAccessToken(session)
           THEN /\ resp' = Redirect("/login")
                /\ calls' = NoCalls
           ELSE \E r1 \in MeReplies :
             LET c1 == Call("me", NoArg, r1)
             IN  IF Raises(r1)
                 THEN resp' = Unhandled(r1.exc) /\ calls' = <<c1>>
                 ELSE IF ProfileFetchFailed(r1)
                 THEN resp' = Text("Error fetching user profile.", "") /\ calls' = <<c1>>
                 ELSE \E r2 \in TopArtistsReplies :
                   LET c2 == Call("top_artists", NoArg, r2)
                   IN  IF Raises(r2)
                       THEN resp' = Unhandled(r2.exc) /\ calls' = <<c1, c2>>
                       ELSE IF ProfileFetchFailed(r2)
                       THEN /\ resp' = Text("Error fetching top artists.", "")
                            /\ calls' = <<c1, c2>>
                       ELSE \E r3 \in TopTracksReplies :
                         LET c3 == Call("top_tracks", NoArg, r3)
                         IN  /\ calls' = <<c1, c2, c3>>
                             /\ IF Raises(r3)
                                THEN resp' = Unhandled(r3.exc)
                                ELSE IF ProfileFetchFailed(r3)
                                THEN resp' = Text("Error fetching top tracks.", "")
                                ELSE resp' = Render("profile.html",
                                        <<r1.json, r2.json, r3.json>>)
    /\ UNCHANGED <<session, fnArgs, fnResult>>

\* the loop of recommend at lines 190-192: len(user_data) lookups, each
\* handed the whole top_artists list
ListLookups(user_data) ==
    [i \in 1..DictLen(user_data) |->
        [ep |-> "related", arg |-> ListArg(user_data.top_artists)]]

\* recommend_music's lookups: one per top artist, with that artist's id
ArtistLookups(user_data) ==
    [i \in DOMAIN TopArtistsOf(user_data) |->
        [ep |-> "related", arg |-> StrArg(TopArtistsOf(user_data)[i].id)]]

\* recommend_music's recommendations requests: one per genre
GenreLookups(user_data) ==
    [j \in DOMAIN GenresOf(user_data) |->
        [ep |-> "recommendations", arg |-> StrArg(GenresOf(user_data)[j])]]

\* @app.route('/recommend')
recommend ==
    /\ request' = Request("/recommend", EmptyDict)
    /\ IF MissingAccessToken(session)
           THEN /\ resp' = Redirect("/login")
                /\ calls' = NoCalls
           ELSE \E r1 \in MeReplies :
             LET c1 == Call("me", NoArg, r1)
             IN  IF Raises(r1)
                 THEN resp' = Unhandled(r1.exc) /\ calls' = <<c1>>
                 ELSE IF RecommendFetchFailed(r1)
                 THEN resp' = Text("Error fetching user profile.", "") /\ calls' = <<c1>>
                 ELSE \E r2 \in TopArtistsReplies :
                   LET c2 == Call("top_artists", NoArg, r2)
                   IN  IF Raises(r2)
                       THEN resp' = Unhandled(r2.exc) /\ calls' = <<c1, c2>>
                       ELSE IF RecommendFetchFailed(r2)
                       THEN /\ resp' = Text("Error fetching top artists.", "")
                            /\ calls' = <<c1, c2>>
                       ELSE
                         LET user_data == DictSet(r1.json, "top_artists", r2.json.items)
                         IN  \E run1 \in Runs(ListLookups(user_data), RelatedReplies) :
                               IF Raised(run1)
                               THEN /\ resp' = Unhandled(ConnectionError)
                                    /\ calls' = <<c1, c2>> \o run1
                               ELSE \E run2 \in Runs(ArtistLookups(user_data), RelatedReplies) :
                                 IF Raised(run2)
                                 THEN /\ resp' = Unhandled(ConnectionError)
                                      /\ calls' = <<c1, c2>> \o run1 \o run2
                                 ELSE \E run3 \in Runs(GenreLookups(user_data), GemReplies) :
                                   /\ calls' = <<c1, c2>> \o run1 \o run2 \o run3
                                   /\ IF Raised(run3)
                                      THEN resp' = Unhandled(ConnectionError)
                                      ELSE \E recommended_tracks \in
                                             recommend_music(user_data, RepliesOf(run2),
                                                             RepliesOf(run3)) :
                                             resp' = Render("recommendations.html",
                                                            recommended_tracks)
    /\ UNCHANGED <<session, fnArgs, fnResult>>

-----------------------------------------------------------------------------

Init ==
    /\ session = EmptyDict
    /\ request = Request("", EmptyDict)
    /\ resp = Response("none", "", "", <<>>)
    /\ calls = NoCalls
    /\ fnArgs = <<>>
    /\ fnResult = NotApplied

Next ==
    \/ home
    \/ login
    \/ callback
    \/ profile
    \/ logout
    \/ recommend

Spec == Init /\ [][Next]_vars

-----------------------------------------------------------------------------
(* get_hidden_gems applied to every recommendations answer within the bounds *)

Popularities == {0, 49, 50, 100}

\* the popularities of the track lists of at most maxLen tracks
PopularityLists(maxLen) == UNION {[1..n -> Popularities] : n \in 0..maxLen}

\* the answers of the recommendations endpoint: a track list, an empty
\* document or an error status
GemInputReplies(maxLen) ==
    {Ok([tracks |-> [i \in DOMAIN ps |-> UpstreamTrack(ps[i])]])
        : ps \in PopularityLists(maxLen)}
    \cup {Ok(EmptyDict), Reply("none", 404, EmptyDict, "")}

GemArgs(maxLen, maxResults) ==
    {[reply |-> r, max_results |-> m]
        : r \in GemInputReplies(maxLen), m \in 0..maxResults}

InitGems ==
    /\ session = EmptyDict
    /\ request = Request("", EmptyDict)
    /\ resp = Response("none", "", "", <<>>)
    /\ calls = NoCalls
    /\ fnArgs \in GemArgs(MaxTracks, MaxResultsBound)
    /\ fnResult = NotApplied

apply_get_hidden_gems ==
    /\ ~fnResult.done
    /\ fnResult' = [done |-> TRUE,
                    val |-> get_hidden_gems(fnArgs.reply, fnArgs.max_results)]
    /\ UNCHANGED <<session, request, resp, calls, fnArgs>>

SpecGems == InitGems /\ [][apply_get_hidden_gems]_vars

-----------------------------------------------------------------------------
(* recommend_music applied to user data and upstream answers within the bounds *)

\* a related-artists list of k artists
SimilarList(k) == [i \in 1..k |-> SimilarArtist(IF i = 2 THEN "s2" ELSE "s1")]

RecRelatedReplies ==
    {Ok([artists |-> SimilarList(k)]) : k \in {0, 1, MaxSimilar}}
    \cup {Reply("none", 404, EmptyDict, "")}

RecGemReplies ==
    {Ok([tracks |-> <<UpstreamTrack(60), UpstreamTrack(10)>>]),
     Ok([tracks |-> <<UpstreamTrack(10), UpstreamTrack(10)>>]),
     Reply("none", 404, EmptyDict, "")}

RecTopArtists == {<<>>, <<TopArtist("a1")>>, <<TopArtist("a1"), TopArtist("a2")>>}

\* user data with and without the genres key
RecUserData ==
    {[id |-> "u1", top_artists |-> t] : t \in RecTopArtists}
    \cup {[id |-> "u1", top_artists |-> t, genres |-> g]
            : t \in RecTopArtists, g \in {<<>>, <<"indie">>}}
    \cup {[id |-> "u1"]}

RecArgs ==
    UNION {{[user_data |-> u, related |-> rel, gems |-> g]
              : rel \in [DOMAIN TopArtistsOf(u) -> RecRelatedReplies],
                g \in [DOMAIN GenresOf(u) -> RecGemReplies]}
           : u \in RecUserData}

InitRec ==
    /\ session = EmptyDict
    /\ request = Request("", EmptyDict)
    /\ resp = Response("none", "", "", <<>>)
    /\ calls = NoCalls
    /\ fnArgs \in RecArgs
    /\ fnResult = NotApplied

apply_recommend_music ==
    /\ ~fnResult.done
    /\ \E recommended_tracks \in
            recommend_music(fnArgs.user_data, fnArgs.related, fnArgs.gems) :
         fnResult' = [done |-> TRUE, val |-> recommended_tracks]
    /\ UNCHANGED <<session, request, resp, calls, fnArgs>>

SpecRec == InitRec /\ [][apply_recommend_music]_vars

-----------------------------------------------------------------------------
(* Properties *)

\* the Session holds a present (truthy) access_token
HasToken(s) ==
    /\ "access_token" \in DOMAIN s
    /\ s["access_token"].some
    /\ s["access_token"].val # ""

\* the token endpoint answered the callback, with this status
TokenAnswered(cs, status) ==
    /\ Len(cs) = 1
    /\ cs[1].ep = "token"
    /\ cs[1].reply.exc = "none"
    /\ cs[1].reply.status = status

\* C1: a /callback request that carries a code and is answered 200 leaves both
\* access_token and refresh_token of the answer in the Session and redirects
\* to /profile; answered with any other status it leaves the Session as it
\* was (empty if it was empty) and returns the raw response body as the text
\* of the error.
C1_CallbackStoresBothOrNeither ==
    [][(/\ request'.path = "/callback"
        /\ "code" \in DOMAIN request'.args
        /\ Len(calls') = 1
        /\ calls'[1].reply.exc = "none")
       => LET reply == calls'[1].reply
          IN  IF reply.status = 200
              THEN /\ {"access_token", "refresh_token"} \subseteq DOMAIN session'
                   /\ session'["access_token"] = Some(reply.json.access_token)
                   /\ session'["refresh_token"] = Some(reply.json.refresh_token)
                   /\ resp' = Redirect("/profile")
              ELSE /\ session' = session
                   /\ (session = EmptyDict => ~HasToken(session'))
                   /\ resp'.kind = "text"
                   /\ resp'.detail = reply.text]_vars

C1_Witness ==
    /\ request.path = "/callback"
    /\ "code" \in DOMAIN request.args
    /\ TokenAnswered(calls, 200)
    /\ HasToken(session)
    /\ "refresh_token" \in DOMAIN session
    /\ resp = Redirect("/profile")

\* C2: a /profile or /recommend request made while the Session holds no
\* access_token is answered with a redirect to /login, without any upstream
\* call, rendered view or error message.
C2_NoTokenRedirectsToLogin ==
    [][(request'.path \in {"/profile", "/recommend"} /\ ~HasToken(session))
       => (resp' = Redirect("/login") /\ calls' = NoCalls)]_vars

C2_Witness ==
    /\ request.path \in {"/profile", "/recommend"}
    /\ ~HasToken(session)
    /\ resp = Redirect("/login")

\* C3: /logout empties the Session whatever it held, and from a Session
\* without access_token every /profile or /recommend request redirects to
\* /login and every request other than a /callback answered 200 leaves the
\* Session without access_token.
C3_LogoutThenLoginRequired ==
    [][/\ (request'.path = "/logout" => (session' = EmptyDict /\ ~HasToken(session')))
       /\ (~HasToken(session) /\ request'.path \in {"/profile", "/recommend"}
              => resp' = Redirect("/login"))
       /\ (~HasToken(session) /\ ~(request'.path = "/callback" /\ TokenAnswered(calls', 200))
              => ~HasToken(session'))]_vars

C3_Witness ==
    /\ request.path = "/logout"
    /\ session = EmptyDict
    /\ resp = Redirect("/")

\* C4: access_token becomes present in the Session only by a /callback request
\* whose token exchange returned 200, and it is then the access_token of that
\* answer; /, /login, /profile, /recommend, /logout and failed callbacks never
\* make it present.
C4_AuthenticatedOnlyByExchange ==
    [][(~HasToken(session) /\ HasToken(session'))
       => (/\ request'.path = "/callback"
           /\ TokenAnswered(calls', 200)
           /\ session'["access_token"].val = calls'[1].reply.json.access_token)]_vars

C4_Witness ==
    /\ HasToken(session)
    /\ request.path = "/callback"
    /\ TokenAnswered(calls, 200)

\* the endpoints of /profile, in the order of the code
ProfileOrder == <<"me", "top_artists", "top_tracks">>

\* api_request returned None for this call
ReturnedAbsent(call) ==
    call.reply.exc = "none" /\ call.reply.status \in ApiErrorStatusCodes

\* api_request returned a value for this call
ReturnedValue(call) ==
    call.reply.exc = "none" /\ call.reply.status \notin ApiErrorStatusCodes

\* C5: with an access_token present, /profile calls profile, top-artists and
\* top-tracks in that order; the view is rendered only if all three calls
\* returned a value, and a call that returns absent is the last call of the
\* request, which ends with a plain-text error.
C5_ProfileAllOrNothing ==
    (request.path = "/profile" /\ HasToken(session)) =>
        /\ Len(calls) \in 1..3
        /\ \A i \in DOMAIN calls : calls[i].ep = ProfileOrder[i]
        /\ (resp.kind = "render" =>
                /\ Len(calls) = 3
                /\ \A i \in DOMAIN calls : ReturnedValue(calls[i])
                /\ resp.data = <<calls[1].reply.json, calls[2].reply.json,
                                 calls[3].reply.json>>)
        /\ \A i \in DOMAIN calls :
              ReturnedAbsent(calls[i]) =>
                  (Len(calls) = i /\ resp.kind = "text" /\ resp.data = <<>>)

C5_Witness ==
    /\ request.path = "/profile"
    /\ HasToken(session)
    /\ Len(calls) = 2
    /\ ReturnedValue(calls[1])
    /\ ReturnedAbsent(calls[2])
    /\ resp = Text("Error fetching top artists.", "")

\* the upstream track list get_hidden_gems was handed ([] when the call failed)
UpstreamTracks(args) ==
    IF args.reply.status = 200 /\ "tracks" \in DOMAIN args.reply.json
    THEN args.reply.json.tracks
    ELSE <<>>

\* the positions of the upstream tracks with popularity below 50
GemPositions(tracks) == {i \in DOMAIN tracks : tracks[i].popularity < 50}

\* the k-th smallest element of a set of numbers
Kth(S, k) == CHOOSE i \in S : Cardinality({j \in S : j < i}) = k - 1

\* C6: get_hidden_gems returns exactly the upstream tracks with popularity
\* strictly below 50, in the upstream order, cut to the first max_results of
\* them: never a track with popularity >= 50, never more than max_results.
C6_HiddenGemsFilterAndTruncate ==
    (fnResult.done /\ "max_results" \in DOMAIN fnArgs) =>
        LET tracks == UpstreamTracks(fnArgs)
            P == GemPositions(tracks)
            out == fnResult.val
        IN  /\ Len(out) = Min(fnArgs.max_results, Cardinality(P))
            /\ Len(out) <= fnArgs.max_results
            /\ \A k \in DOMAIN out :
                  /\ out[k].popularity < 50
                  /\ out[k].popularity = tracks[Kth(P, k)].popularity
                  /\ out[k].name = tracks[Kth(P, k)].name

C6_Witness ==
    /\ fnResult.done
    /\ "max_results" \in DOMAIN fnArgs
    /\ fnArgs.max_results = 2
    /\ Cardinality(GemPositions(UpstreamTracks(fnArgs))) = 3
    /\ Len(UpstreamTracks(fnArgs)) = 5
    /\ UpstreamTracks(fnArgs)[1].popularity = 100
    /\ UpstreamTracks(fnArgs)[3].popularity = 50
    /\ Len(fnResult.val) = 2
    /\ fnResult.val[1].popularity = 49
    /\ fnResult.val[2].popularity = 0

\* how often entry e occurs in seq
Occurrences(seq, e) == Cardinality({i \in DOMAIN seq : seq[i] = e})

\* C7: recommend_music returns min(10, number of candidates) entries, so at
\* most 10, and each returned entry is one of the candidates collected before
\* the shuffle, returned no more often than it was collected.
C7_RecommendAtMostTen ==
    (fnResult.done /\ "user_data" \in DOMAIN fnArgs) =>
        LET candidates ==
                RecommendCandidates(fnArgs.user_data, fnArgs.related, fnArgs.gems)
            out == fnResult.val
        IN  /\ Len(out) <= 10
            /\ Len(out) = Min(10, Len(candidates))
            /\ \A k \in DOMAIN out :
                  /\ Occurrences(candidates, out[k]) >= 1
                  /\ Occurrences(out, out[k]) <= Occurrences(candidates, out[k])

C7_Witness ==
    /\ fnResult.done
    /\ "user_data" \in DOMAIN fnArgs
    /\ Len(RecommendCandidates(fnArgs.user_data, fnArgs.related, fnArgs.gems)) > 10
    /\ Len(fnResult.val) = 10
    /\ \E k \in DOMAIN fnResult.val : fnResult.val[k].type = "Track"
    /\ fnResult.val[1].type = "Artist"
    /\ fnResult.val[1].name = "s2"

\* C8: a /callback request without a code parameter stores no token in the
\* Session and does not end in the redirect to /profile, whatever the token
\* endpoint answers.
C8_MissingCodeIsFailure ==
    [][(request'.path = "/callback" /\ "code" \notin DOMAIN request'.args)
       => (session' = session /\ resp' # Redirect("/profile"))]_vars

\* C9: whatever the outcome of each upstream call (success, error status or
\* network error), the handler ends in a redirect, a rendered view or a
\* message; no error leaves the handler.
C9_NoErrorLeavesHandler ==
    request.path # "" => resp.kind \in {"redirect", "render", "text"}

\* the related-artists calls of a request
RelatedCalls(cs) == SelectSeq(cs, LAMBDA c : c.ep = "related")

\* C10: a /recommend request that is rendered has called the related-artists
\* endpoint exactly once per artist of top_artists, each time with that single
\* artist's id, and with nothing else.
C10_OneLookupPerTopArtist ==
    (request.path = "/recommend" /\ resp.kind = "render") =>
        LET top_artists == calls[2].reply.json.items
            lookups == RelatedCalls(calls)
        IN  /\ Len(lookups) = Len(top_artists)
            /\ \A i \in DOMAIN lookups : lookups[i].arg = StrArg(top_artists[i].id)

====
